---------------------------- MODULE Spec2Model ----------------------------
(***************************************************************************)
(* Model of the webhook receiver: the payload normalizers                  *)
(* (webhook_parser.py), the event store operations (db.py) and the HTTP    *)
(* handlers that drive them (app.py).                                      *)
(*                                                                         *)
(* Strings are modelled by what the code does with them:                   *)
(*   - a text string is a sequence of segments (k = "text"); the literal   *)
(*     "refs/heads/" is one segment, and no other segment overlaps it;     *)
(*   - a timestamp string carries its form and the instant it denotes      *)
(*     (k = "isoZ", "isoOff", "isoNaive", "canon");                        *)
(*   - the 24-hex-digit rendering of an ObjectId n is k = "oid", t = n.    *)
(* The canonical form `YYYY-MM-DD HH:MM:SS UTC` is fixed width, so its     *)
(* lexical order is the order of the instants t.                           *)
(***************************************************************************)
EXTENDS Integers, Sequences, FiniteSets, TLC

-----------------------------------------------------------------------------
(* Bounds of the model. *)

MaxOid == 3        \* ObjectIds generated in one run
MaxInflight == 2   \* webhook requests between id generation and the write
MaxClock == 2      \* wall-clock instants
MaxLimit == 2      \* largest limit a poll passes
MaxStamp == 4      \* instants an upstream timestamp denotes
MaxOffset == 1     \* largest UTC offset of an upstream timestamp

-----------------------------------------------------------------------------
(* Python / JSON values. *)

Text(seg) == [k |-> "text", seg |-> seg, t |-> 0, off |-> 0]
Stamp(k, t, off) == [k |-> k, seg |-> <<>>, t |-> t, off |-> off]
Canonical(t) == Stamp("canon", t, 0)
OidHex(n) == Stamp("oid", n, 0)

None == [t |-> "null"]
JStr(s) == [t |-> "str", s |-> s]
JBool(b) == [t |-> "bool", b |-> b]
JNum(n) == [t |-> "num", n |-> n]
JObj(o) == [t |-> "obj", o |-> o]
EmptyDict == JObj([x \in {} |-> None])
EmptyStr == JStr(Text(<<>>))
Lit(w) == JStr(Text(<<w>>))

IsObj(v) == v.t = "obj"
IsStr(v) == v.t = "str"

\* Python truth value of a JSON value.
Truthy(v) ==
    CASE v.t = "null" -> FALSE
      [] v.t = "str"  -> ~(v.s.k = "text" /\ v.s.seg = <<>>)
      [] v.t = "bool" -> v.b
      [] v.t = "num"  -> v.n # 0
      [] v.t = "obj"  -> DOMAIN v.o # {}

\* dict.get(key, default): the default only when the key is missing; a key
\* that is present with a null value yields None.
Get(d, key, default) == IF key \in DOMAIN d.o THEN d.o[key] ELSE default

\* a or b
Or(a, b) == IF Truthy(a) THEN a ELSE b

\* Result of a step that may raise.
Raise == [ok |-> FALSE]
Ok(v) == [ok |-> TRUE, v |-> v]

-----------------------------------------------------------------------------
(* constants.py *)

ACTION_PUSH == "PUSH"
ACTION_PULL_REQUEST == "PULL_REQUEST"
ACTION_MERGE == "MERGE"
ACTION_TYPES == {ACTION_PUSH, ACTION_PULL_REQUEST, ACTION_MERGE}
GITHUB_EVENT_PUSH == "push"
GITHUB_EVENT_PULL_REQUEST == "pull_request"

-----------------------------------------------------------------------------
(* webhook_parser.py *)

\* datetime.fromisoformat on the stripped string with Z replaced by +00:00:
\* the instant in UTC, or a ValueError.  The canonical form ends in " UTC",
\* which is no ISO-8601 offset, so it does not parse.
fromisoformat_utc(s) ==
    CASE s.k = "isoZ"     -> Ok(s.t)
      [] s.k = "isoOff"   -> Ok(s.t - s.off)
      [] s.k = "isoNaive" -> Ok(s.t)
      [] OTHER            -> Raise

\* _timestamp_to_utc_str(timestamp_str) at wall-clock instant now.  Raises
\* only when the value is truthy and not a string (.strip() is outside the
\* try).
_timestamp_to_utc_str(v, now) ==
    IF ~Truthy(v) THEN Ok(JStr(Canonical(now)))
    ELSE IF ~IsStr(v) THEN Raise
    ELSE LET dt == fromisoformat_utc(v.s)
         IN  IF dt.ok THEN Ok(JStr(Canonical(dt.v)))
             ELSE Ok(JStr(Canonical(now)))

\* commit_id[:40] if commit_id else ""
Slice40(v) ==
    IF ~Truthy(v) THEN Ok(EmptyStr)
    ELSE IF ~IsStr(v) THEN Raise
    ELSE IF v.s.k = "text"
         THEN Ok(JStr(Text(SubSeq(v.s.seg, 1,
                 IF Len(v.s.seg) < 40 THEN Len(v.s.seg) ELSE 40))))
         ELSE Ok(v)

\* ref.replace("refs/heads/", "") if ref.startswith("refs/heads/") else ref
BranchOf(ref) ==
    IF ~IsStr(ref) THEN Raise
    ELSE IF ref.s.k = "text" /\ ref.s.seg # <<>> /\ ref.s.seg[1] = "refs/heads/"
         THEN Ok(JStr(Text(SelectSeq(ref.s.seg, LAMBDA w : w # "refs/heads/"))))
         ELSE Ok(ref)

\* A parser without the handler: what is raised in the try goes on to the
\* caller.
Try_Reraises(r) == IF r.ok THEN r.v ELSE Raise

\* except Exception: return None.  The handler of both event parsers: a
\* raise inside the try becomes the "no record" value.
Try(r) == IF r.ok THEN r.v ELSE None

\* The try block of _parse_push_event (lines 86-109): the record, or the
\* raise of .get on a value that is no dict, of .startswith or a slice on
\* a value that is no string, or of _timestamp_to_utc_str.
_parse_push_event_try(payload, now) ==
    IF ~IsObj(payload) THEN Raise
    ELSE
    LET head_commit == Get(payload, "head_commit", EmptyDict)
        pusher == Get(payload, "pusher", EmptyDict)
    IN
    IF ~IsObj(head_commit) \/ ~IsObj(pusher) THEN Raise
    ELSE
    LET commit_id == Or(Get(head_commit, "id", None), Get(payload, "after", EmptyStr))
        author0 == Get(pusher, "name", EmptyStr)
        hc_author == Get(head_commit, "author", EmptyDict)
    IN
    IF ~Truthy(author0) /\ ~IsObj(hc_author) THEN Raise
    ELSE
    LET author == IF Truthy(author0) THEN author0
                  ELSE Get(hc_author, "name", EmptyStr)
        branch_name == BranchOf(Get(payload, "ref", EmptyStr))
        timestamp_utc == _timestamp_to_utc_str(Get(head_commit, "timestamp", EmptyStr), now)
        request_id == Slice40(commit_id)
    IN
    IF ~branch_name.ok \/ ~timestamp_utc.ok \/ ~request_id.ok THEN Raise
    ELSE Ok([request_id |-> request_id.v,
             author |-> author,
             action |-> ACTION_PUSH,
             from_branch |-> branch_name.v,
             to_branch |-> branch_name.v,
             timestamp |-> timestamp_utc.v])

_parse_push_event(payload, now) == Try(_parse_push_event_try(payload, now))

\* str(pr_number) if pr_number else ""
StrOfNumber(v) ==
    IF ~Truthy(v) THEN EmptyStr
    ELSE IF v.t = "num" THEN Lit(ToString(v.n))
    ELSE IF v.t = "bool" THEN Lit("True")
    ELSE IF v.t = "obj" THEN Lit("{...}")
    ELSE v

\* A decision that drops nothing: any other upstream action is kept under
\* a name of its own.
pr_action_DropsNothing(action, merged) ==
    IF Truthy(merged) /\ action = Lit("closed") THEN ACTION_MERGE
    ELSE IF action \in {Lit("opened"), Lit("closed")} THEN ACTION_PULL_REQUEST
    ELSE "OTHER"

\* A decision that looks at the merged flag before the upstream action.
pr_action_MergedFirst(action, merged) ==
    IF Truthy(merged) THEN ACTION_MERGE
    ELSE IF action \in {Lit("opened"), Lit("closed")} THEN ACTION_PULL_REQUEST
    ELSE ""

\* The decision on (action, merged): the stored action, or "" for a drop.
pr_action(action, merged) ==
    IF Truthy(merged) /\ action = Lit("closed") THEN ACTION_MERGE
    ELSE IF action = Lit("opened") THEN ACTION_PULL_REQUEST
    ELSE IF action \notin {Lit("opened"), Lit("closed")} THEN ""
    ELSE ACTION_PULL_REQUEST

\* The try block of _parse_pull_request_event (lines 132-172): the record,
\* None for an upstream action that is dropped, or a raise.
_parse_pull_request_event_try(payload, now) ==
    IF ~IsObj(payload) THEN Raise
    ELSE
    LET pr == Get(payload, "pull_request", EmptyDict)
        action == Get(payload, "action", EmptyStr)
    IN
    IF ~IsObj(pr) THEN Raise
    ELSE
    LET our_action == pr_action(action, Get(pr, "merged", JBool(FALSE)))
        user == Get(pr, "user", EmptyDict)
        head == Get(pr, "head", EmptyDict)
        base == Get(pr, "base", EmptyDict)
    IN
    IF our_action = "" THEN Ok(None)
    ELSE IF ~IsObj(user) \/ ~IsObj(head) \/ ~IsObj(base) THEN Raise
    ELSE
    LET updated_at == Or(Get(pr, "updated_at", EmptyStr), Get(pr, "created_at", EmptyStr))
        timestamp_utc == _timestamp_to_utc_str(updated_at, now)
    IN
    IF ~timestamp_utc.ok THEN Raise
    ELSE Ok([request_id |-> StrOfNumber(Get(pr, "number", EmptyStr)),
             author |-> Get(user, "login", EmptyStr),
             action |-> our_action,
             from_branch |-> Get(head, "ref", EmptyStr),
             to_branch |-> Get(base, "ref", EmptyStr),
             timestamp |-> timestamp_utc.v])

_parse_pull_request_event(payload, now) ==
    Try(_parse_pull_request_event_try(payload, now))

parse_github_webhook(payload, event_type, now) ==
    IF event_type = GITHUB_EVENT_PUSH THEN _parse_push_event(payload, now)
    ELSE IF event_type = GITHUB_EVENT_PULL_REQUEST
         THEN _parse_pull_request_event(payload, now)
    ELSE None


-----------------------------------------------------------------------------
(* db.py: the events collection is a set of documents, each the event      *)
(* record plus the `_id` the driver gave it.                               *)

\* events = list(cursor): a result is materialised once; The names the one
\* value of such a result.
The(S) == CHOOSE x \in S : TRUE

Ids(D) == {d._id : d \in D}
MaxId(D) == CHOOSE n \in Ids(D) : \A m \in Ids(D) : m <= n
Ts(d) == d.timestamp.s.t

\* cursor.limit(n): 0 is "no limit", a negative n limits to its magnitude.
Cap(limit, n) ==
    LET m == IF limit < 0 THEN 0 - limit ELSE limit
    IN  IF m = 0 \/ n < m THEN n ELSE m

\* Display order: (timestamp, _id) descending.
Newer(a, b) == Ts(a) > Ts(b) \/ (Ts(a) = Ts(b) /\ a._id > b._id)

\* The documents in insertion order: what the cursor branch holds before
\* its display sort.
NewestFirst_InIdOrder(D) ==
    [i \in 1..Cardinality(D) |->
        CHOOSE a \in D : Cardinality({b \in D : b._id < a._id}) = i - 1]

\* The documents in display order: the i-th has i - 1 documents before it.
NewestFirst(D) ==
    [i \in 1..Cardinality(D) |->
        CHOOSE a \in D : Cardinality({b \in D : Newer(b, a)}) = i - 1]

\* The limit applied to the documents newest first instead.
FirstById_NewestFirst(D, limit) ==
    {NewestFirst(D)[i] : i \in 1..Cap(limit, Cardinality(D))}

\* find(query).sort("_id", 1).limit(limit): the first documents in id order.
FirstById(D, limit) ==
    {d \in D : Cardinality({e \in D : e._id < d._id}) < Cap(limit, Cardinality(D))}

\* ObjectId(after_id): the id a 24-hex-digit string denotes, or InvalidId.
ObjectIdOf(v) == IF IsStr(v) /\ v.s.k = "oid" THEN Ok(v.s.t) ELSE Raise

\* str(ObjectId)
StrOfOid(n) == JStr(OidHex(n))

\* The timestamp branch with $gte for $gt.
TimestampGt_Gte(d, since) == Ts(d) >= since.s.t

\* {"timestamp": {"$gt": since}} on canonical strings: lexical order.
TimestampGt(d, since) == Ts(d) > since.s.t

\* The cursor branch with $gte for $gt.
CursorQuery_Gte(D, after_id) ==
    LET oid == ObjectIdOf(after_id)
    IN  IF oid.ok THEN {d \in D : d._id >= oid.v} ELSE D

\* The query of the cursor branch (lines 107-110).
CursorQuery(D, after_id) ==
    LET oid == ObjectIdOf(after_id)
    IN  IF oid.ok THEN {d \in D : d._id > oid.v} ELSE D

\* The id of the first event of the batch as displayed.
LatestId_OfNewest(B) == IF B = {} THEN None ELSE StrOfOid(NewestFirst(B)[1]._id)

\* latest_id = str(max(e["_id"] for e in events)) if events else None
LatestId(B) == IF B = {} THEN None ELSE StrOfOid(MaxId(B))

\* The documents a call returns, as a set (lines 105-125).
Batch(D, since_timestamp, after_id, limit) ==
    IF Truthy(after_id)
    THEN FirstById(CursorQuery(D, after_id), limit)
    ELSE LET M == IF Truthy(since_timestamp)
                  THEN {d \in D : TimestampGt(d, since_timestamp)}
                  ELSE D
             S == NewestFirst(M)
         IN  {S[i] : i \in 1..Cap(limit, Len(S))}

\* get_events: the batch in display order with each _id as a string, and
\* latest_id.
get_events(D, since_timestamp, after_id, limit) ==
    The({LET S == NewestFirst(B)
         IN  [events |-> [i \in 1..Len(S) |->
                            [S[i] EXCEPT !._id = StrOfOid(S[i]._id)]],
              latest_id |-> LatestId(B)]
         : B \in {Batch(D, since_timestamp, after_id, limit)}})


-----------------------------------------------------------------------------
(* app.py: what each handler answers.                                      *)

LimitDefault == 100

\* A decimal string, as a query parameter carries a number.
NumStr(n) == Stamp("int", n, 0)

\* int(request.args.get("limit", 100))
IntOf(v) ==
    IF v = None THEN Ok(LimitDefault)
    ELSE IF v.s.k = "int" THEN Ok(v.s.t)
    ELSE Raise

NoResponse ==
    [kind |-> "none", status |-> 0, msg |-> "", events |-> <<>>, count |-> 0,
     latest_id |-> None]
Response(kind, status, msg) ==
    [NoResponse EXCEPT !.kind = kind, !.status = status, !.msg = msg]

\* handle_webhook up to the call of insert_event: the answer when the
\* request ends there, or the event to insert (status 0: not yet answered).
webhook_event(event_type, payload, now) ==
    IF event_type = "" THEN [status |-> 400, msg |-> "Missing X-GitHub-Event header", event |-> None]
    ELSE IF ~Truthy(payload) THEN [status |-> 400, msg |-> "Missing JSON payload", event |-> None]
    ELSE IF event_type = "ping" THEN [status |-> 200, msg |-> "Webhook endpoint is active", event |-> None]
    ELSE LET event_data == parse_github_webhook(payload, event_type, now)
         IN  IF event_data = None
             THEN [status |-> 200, msg |-> "not supported", event |-> None]
             ELSE [status |-> 0, msg |-> "", event |-> event_data]

\* api_events: args are the query parameters (None when not given), up
\* tells whether the database answers this request.
api_events(D, args, up) ==
    LET limit == IntOf(args.limit)
    IN  IF ~limit.ok \/ ~up
        THEN Response("events", 500, "Failed to retrieve events")
        ELSE LET r == get_events(D,
                        IF ~Truthy(args.after_id) THEN args.since ELSE None,
                        args.after_id, limit.v)
             IN  [kind |-> "events", status |-> 200, msg |-> "success",
                  events |-> r.events, count |-> Len(r.events),
                  latest_id |-> r.latest_id]

\* clear_events
clear_events(D, up) ==
    IF up THEN [Response("clear", 200, "success") EXCEPT !.count = Cardinality(D)]
    ELSE Response("clear", 500, "error")

-----------------------------------------------------------------------------
(* State. *)

VARIABLES
    docs,       \* the events collection
    oidCount,   \* ObjectIds this process has generated
    inflight,   \* documents that have their _id and are not yet written
    connected,  \* db.py's _db is set
    cursor,     \* the poller's cursor: None or the last latest_id it got
    delivered,  \* per id, the number of batches the poller got it in
    lastEmpty,  \* the poller's last batch was empty
    disturbed,  \* a write or a clear happened since the poller's first poll
    limit,      \* the limit the poller passes
    legacy,     \* the state of a consumer that polls by timestamp
    held,       \* the cursor the poller held at the last clear
    req,        \* the last request of another client that was answered
    resp        \* and its answer

store == <<docs, oidCount, inflight, connected>>
poller == <<cursor, delivered, lastEmpty, disturbed, limit, legacy, held>>
client == <<req, resp>>
vars == <<docs, oidCount, inflight, connected, cursor, delivered, lastEmpty,
          disturbed, limit, legacy, held, req, resp>>

-----------------------------------------------------------------------------
(* Inputs. *)

Instants == 1..MaxClock
Limits == 1..MaxLimit

PushPayload(ts) ==
    JObj([ref |-> JStr(Text(<<"refs/heads/", "main">>)),
          after |-> Lit("abc123"),
          head_commit |-> JObj([id |-> Lit("abc123"), timestamp |-> ts,
                                author |-> JObj([name |-> Lit("alice")])]),
          pusher |-> JObj([name |-> Lit("alice")])])

PullRequestPayload(action, merged, ts) ==
    JObj([action |-> Lit(action),
          pull_request |-> JObj([merged |-> JBool(merged), number |-> JNum(42),
                                 user |-> JObj([login |-> Lit("bob")]),
                                 head |-> JObj([ref |-> Lit("feature-x")]),
                                 base |-> JObj([ref |-> Lit("main")]),
                                 updated_at |-> ts])])

\* The deliveries of the protocol specifications: pushes whose embedded
\* timestamps are unrelated to the order of arrival, a push without one
\* (stamped with the wall clock), and deliveries that store nothing.
Deliveries ==
    {<<GITHUB_EVENT_PUSH, PushPayload(JStr(Stamp("isoZ", t, 0)))>> : t \in Instants}
    \cup {<<GITHUB_EVENT_PUSH, PushPayload(EmptyStr)>>,
          <<GITHUB_EVENT_PUSH, JObj([head_commit |-> None])>>,
          <<GITHUB_EVENT_PULL_REQUEST, PullRequestPayload("synchronize", FALSE, EmptyStr)>>,
          <<"ping", JObj([zen |-> Lit("hi")])>>,
          <<"issues", JObj([action |-> Lit("opened")])>>,
          <<"", JObj([zen |-> Lit("hi")])>>,
          <<GITHUB_EVENT_PUSH, None>>}

\* The deliveries with the wall clock and the state of the database at the
\* time of each: <<event type, payload, now, up>>.  Where the clock or the
\* database makes no difference to what the handler does, one value stands
\* for all.
WebhookRequests ==
    {q \in {<<d[1], d[2], now, up>> : d \in Deliveries, now \in Instants,
                                      up \in BOOLEAN} :
        LET pre == webhook_event(q[1], q[2], q[3])
        IN  /\ q[3] = 1 \/ pre # webhook_event(q[1], q[2], 1)
            /\ q[4] \/ pre.event # None}

Args(a, s, l) == [after_id |-> a, since |-> s, limit |-> l]
LimitArgs == {None} \cup {JStr(NumStr(n)) : n \in Limits}

\* The polls of any client: by cursor (a valid id, stored or not, or a
\* string that is no id), by timestamp or unfiltered (no after_id, or an
\* empty one), with both filters, and with a limit that is no number.
PollArgs ==
    {Args(a, None, l) : a \in {Lit("not-an-id")} \cup {StrOfOid(n) : n \in 1..MaxOid},
                        l \in LimitArgs}
    \cup {Args(a, s, l) : a \in {None, EmptyStr},
                          s \in {None} \cup {JStr(Canonical(t)) : t \in 0..MaxClock},
                          l \in LimitArgs}
    \cup {Args(StrOfOid(1), JStr(Canonical(1)), None),
          Args(None, None, Lit("many"))}

\* Polls with the state of the database at the time: <<args, up>>.  A poll
\* that finds the database down fails whatever it asks for.
PollRequests ==
    {<<args, TRUE>> : args \in PollArgs}
    \cup {<<Args(a, None, None), FALSE>> : a \in {None, StrOfOid(1)}}

NoRequest ==
    [kind |-> "none", event_type |-> "", payload |-> None, after_id |-> None,
     since |-> None, limit |-> None]

-----------------------------------------------------------------------------
(* Steps of the store.  Each handler is given as its effect on the store    *)
(* and, apart, the answer it sends.                                        *)

\* A store that numbers a document by the count of those it holds.
NewObjectId_CountsDocs == Cardinality(docs) + 1

\* bson.ObjectId(): ids of one process grow with each one generated.
NewObjectId == oidCount + 1

\* insert_event's document: the event with the _id insert_one adds to it.
Document(oid, event) ==
    [_id |-> oid, request_id |-> event.request_id, author |-> event.author,
     action |-> event.action, from_branch |-> event.from_branch,
     to_branch |-> event.to_branch, timestamp |-> event.timestamp]

\* The request reaches insert_one: there is an event and get_db returns.
Inserts(pre, up) == pre.event # None /\ (connected \/ up)

\* handle_webhook up to the point where insert_one has given the document
\* its _id; the requests of a multi-threaded server interleave there.  A
\* request that stores nothing ends here.
WebhookReceive(event_type, payload, now, up) ==
    LET pre == webhook_event(event_type, payload, now)
    IN  IF Inserts(pre, up)
        THEN /\ oidCount < MaxOid
             /\ Cardinality(inflight) < MaxInflight
             /\ connected' = TRUE
             /\ oidCount' = NewObjectId
             /\ inflight' = inflight \cup {Document(NewObjectId, pre.event)}
             /\ docs' = docs
        ELSE UNCHANGED store

\* insert_one's write reaches the server, or fails; handle_webhook answers.
WebhookWrite(doc, up) ==
    /\ doc \in inflight
    /\ inflight' = inflight \ {doc}
    /\ docs' = IF up THEN docs \cup {doc} ELSE docs
    /\ UNCHANGED <<oidCount, connected>>

\* A handler whose write lands although the server reports it down.
handle_webhook_StoresOnFailure(event_type, payload, now, up) ==
    LET pre == webhook_event(event_type, payload, now)
    IN  IF Inserts(pre, up)
        THEN /\ oidCount < MaxOid
             /\ inflight = {}
             /\ connected' = TRUE
             /\ oidCount' = NewObjectId
             /\ docs' = docs \cup {Document(NewObjectId, pre.event)}
             /\ inflight' = inflight
        ELSE UNCHANGED store

\* handle_webhook served with no other request in between: the write
\* follows the id at once.  With the connection open and the server down,
\* insert_one has spent an id when the write fails.
handle_webhook(event_type, payload, now, up) ==
    LET pre == webhook_event(event_type, payload, now)
    IN  IF Inserts(pre, up)
        THEN /\ oidCount < MaxOid
             /\ inflight = {}
             /\ connected' = TRUE
             /\ oidCount' = NewObjectId
             /\ docs' = IF up THEN docs \cup {Document(NewObjectId, pre.event)}
                        ELSE docs
             /\ inflight' = inflight
        ELSE UNCHANGED store

handle_webhook_answer(event_type, payload, now, up) ==
    LET pre == webhook_event(event_type, payload, now)
    IN  /\ resp' = IF pre.event = None
                   THEN Response("webhook", pre.status, pre.msg)
                   ELSE IF up THEN Response("webhook", 200, "success")
                   ELSE Response("webhook", 500, "Internal server error")
        /\ req' = [NoRequest EXCEPT !.kind = "webhook",
                                    !.event_type = event_type,
                                    !.payload = payload]

\* delete_all_events, from GET /clear-events
delete_all_events(up) ==
    /\ connected' = (connected \/ up)
    /\ docs' = IF up THEN {} ELSE docs
    /\ UNCHANGED <<oidCount, inflight>>

ClearEventsAnswer(up) ==
    /\ resp' = clear_events(docs, up)
    /\ req' = [NoRequest EXCEPT !.kind = "clear"]

\* A poll that takes what it reads out of the collection.
ApiEvents_Consumes(args, up) ==
    /\ connected' = (connected \/ (up /\ IntOf(args.limit).ok))
    /\ docs' = IF up /\ IntOf(args.limit).ok
               THEN docs \ Batch(docs, IF ~Truthy(args.after_id) THEN args.since ELSE None,
                                 args.after_id, IntOf(args.limit).v)
               ELSE docs
    /\ UNCHANGED <<oidCount, inflight>>

\* GET /api/events reads the collection and may open the connection.
ApiEvents(args, up) ==
    /\ connected' = (connected \/ (up /\ IntOf(args.limit).ok))
    /\ UNCHANGED <<docs, oidCount, inflight>>

ApiEventsAnswer(args, up) ==
    /\ resp' = api_events(docs, args, up)
    /\ req' = [NoRequest EXCEPT !.kind = "events", !.after_id = args.after_id,
                                !.since = args.since, !.limit = args.limit]

-----------------------------------------------------------------------------
(* The poller: one consumer that follows the cursor.  It sends its cursor  *)
(* as after_id (nothing on its first poll), and takes the latest_id of     *)
(* each answer as its next cursor; an answer without one (an empty batch,  *)
(* or a failure) leaves the cursor as it is.                               *)

MaxCount == 2   \* delivered counts stop here

Started == lastEmpty \/ cursor # None

\* The timestamp consumer before its first poll: no since value, nothing
\* received, no poll made.
NoLegacy == [since |-> None, seen |-> {}, polled |-> 0, lastEmpty |-> FALSE]

BatchIds(r) == {r.events[i]._id.s.t : i \in 1..Len(r.events)}

PollerArgs == [after_id |-> cursor, since |-> None, limit |-> JStr(NumStr(limit))]

PollerTakes(r) ==
    IF r.status # 200 THEN UNCHANGED <<cursor, delivered, lastEmpty>>
    ELSE /\ cursor' = IF r.latest_id = None THEN cursor ELSE r.latest_id
         /\ delivered' = [i \in DOMAIN delivered |->
                            IF i \in BatchIds(r) /\ delivered[i] < MaxCount
                            THEN delivered[i] + 1 ELSE delivered[i]]
         /\ lastEmpty' = (r.count = 0)

-----------------------------------------------------------------------------
(* Spec: webhooks, clears and the poller.                                  *)

InitStore ==
    /\ docs = {}
    /\ oidCount = 0
    /\ inflight = {}
    /\ connected = FALSE
    /\ cursor = None
    /\ delivered = [i \in 1..MaxOid |-> 0]
    /\ lastEmpty = FALSE
    /\ disturbed = FALSE
    /\ legacy = NoLegacy
    /\ held = None
    /\ req = NoRequest
    /\ resp = NoResponse

Init == InitStore /\ limit \in Limits

Deliver ==
    \E q \in WebhookRequests :
        /\ WebhookReceive(q[1], q[2], q[3], q[4])
        /\ UNCHANGED <<poller, client>>

Write ==
    \E doc \in inflight, up \in BOOLEAN :
        /\ WebhookWrite(doc, up)
        /\ disturbed' = (disturbed \/ (Started /\ up))
        /\ UNCHANGED <<cursor, delivered, lastEmpty, limit, legacy, held, client>>

Clear ==
    \E up \in BOOLEAN :
        /\ delete_all_events(up)
        /\ disturbed' = (disturbed \/ (Started /\ up))
        /\ held' = IF up THEN cursor ELSE held
        /\ UNCHANGED <<cursor, delivered, lastEmpty, limit, legacy, client>>

Poll ==
    \E up \in BOOLEAN :
        \E r \in {api_events(docs, PollerArgs, up)} :
            /\ ApiEvents(PollerArgs, up)
            /\ PollerTakes(r)
            /\ UNCHANGED <<disturbed, limit, legacy, held, client>>

Next == Deliver \/ Write \/ Clear \/ Poll

Spec == Init /\ [][Next]_vars

-----------------------------------------------------------------------------
(* SpecApi: any client's requests, each with its answer.                   *)

InitApi == InitStore /\ limit = 1

ApiDeliver ==
    \E q \in WebhookRequests :
        /\ handle_webhook(q[1], q[2], q[3], q[4])
        /\ handle_webhook_answer(q[1], q[2], q[3], q[4])
        /\ UNCHANGED poller

ApiClear ==
    \E up \in BOOLEAN :
        /\ delete_all_events(up)
        /\ ClearEventsAnswer(up)
        /\ UNCHANGED poller

ApiPoll ==
    \E q \in PollRequests :
        /\ ApiEvents(q[1], q[2])
        /\ ApiEventsAnswer(q[1], q[2])
        /\ UNCHANGED poller

NextApi == ApiDeliver \/ ApiClear \/ ApiPoll

SpecApi == InitApi /\ [][NextApi]_vars


\* The poller keeps polling: a poll that can bring it something new is
\* eventually made.
SpecFair == Spec /\ WF_vars(Poll)

-----------------------------------------------------------------------------
(* Claims about the retrieval protocol, under Spec.                        *)

CursorOid == IF cursor = None THEN 0 ELSE cursor.s.t

\* C1 (no-gap drain): when the poller, starting without a cursor, has polled
\* until a batch came back empty, and no record was written or cleared
\* since its first poll, it has received exactly the stored records, each
\* once.
C1_NoGapDrain ==
    (lastEmpty /\ ~disturbed) =>
        /\ \A d \in docs : delivered[d._id] = 1
        /\ \A i \in DOMAIN delivered : delivered[i] > 0 => i \in Ids(docs)

\* C2 (no duplicate delivery): no id has come to the poller in two batches,
\* whatever was inserted between its polls.
C2_NoDuplicate == \A i \in DOMAIN delivered : delivered[i] <= 1

\* Two records reached the poller in different batches, with a write
\* between its polls.
C2_Witness ==
    /\ disturbed
    /\ \E i, j \in DOMAIN delivered :
          i < j /\ delivered[i] = 1 /\ delivered[j] = 1 /\ CursorOid = j

\* C3 (eventual delivery): under SpecFair, a stored record is eventually
\* delivered to the poller (or cleared).
C3_EventualDelivery ==
    \A i \in 1..MaxOid :
        (i \in Ids(docs)) ~> (delivered[i] >= 1 \/ i \notin Ids(docs))

\* C4 (no miss under concurrency): no record becomes visible in the store
\* with an id at or below the cursor a poll has already returned.
C4_NoLateSmallerId ==
    [][\A d \in docs' \ docs : d._id > CursorOid]_vars

-----------------------------------------------------------------------------
(* Claims about get_events, under SpecApi.  A write or a clear is itself a *)
(* request, so while req is a poll the collection is the one it read.      *)

PollAnswered == req.kind = "events" /\ resp.status = 200
ReqLimit == IntOf(req.limit).v
RespIds == {resp.events[i]._id.s.t : i \in 1..Len(resp.events)}
ValidCursor == ObjectIdOf(req.after_id).ok
ReqOid == ObjectIdOf(req.after_id).v
Least(a, b) == IF a < b THEN a ELSE b

\* C6 (absent cursor): a poll with neither after_id nor since returns the
\* min(limit, |store|) records with the smallest ids.
C6_AbsentCursorSmallestIds ==
    (PollAnswered /\ req.after_id = None /\ req.since = None) =>
        /\ Cardinality(RespIds) = Least(ReqLimit, Cardinality(docs))
        /\ \A i \in RespIds : i \in Ids(docs)
        /\ \A i \in Ids(docs) \ RespIds : \A j \in RespIds : j < i

\* C7 (malformed cursor): a poll whose after_id is no valid id is answered
\* as the poll without after_id is: same batch, same latest_id.
C7_MalformedAsAbsent ==
    (req.kind = "events" /\ IntOf(req.limit).ok /\ resp.status # 500
        /\ Truthy(req.after_id) /\ ~ValidCursor) =>
        /\ resp.status = 200
        /\ resp.events = get_events(docs, None, None, ReqLimit).events
        /\ resp.latest_id = get_events(docs, None, None, ReqLimit).latest_id

\* C8 (valid cursor X): the batch holds only ids above X, and exactly the
\* min(limit, k) smallest of the k stored ids above X.
C8_ValidCursor ==
    (PollAnswered /\ ValidCursor) =>
        LET above == {i \in Ids(docs) : i > ReqOid}
        IN  /\ Len(resp.events) = Least(ReqLimit, Cardinality(above))
            /\ Cardinality(RespIds) = Len(resp.events)
            /\ RespIds \subseteq above
            /\ \A i \in above \ RespIds : \A j \in RespIds : j < i

\* A poll by cursor left out a record at or below the cursor and one above
\* the batch.
C8_Witness ==
    /\ PollAnswered /\ ValidCursor
    /\ Len(resp.events) = 1
    /\ \E i, j \in Ids(docs) : i <= ReqOid /\ \A k \in RespIds : k < j

\* C9 (next cursor): in every mode latest_id is the largest id of the batch,
\* absent exactly when the batch is empty, and above a valid cursor.
C9_NextCursor ==
    PollAnswered =>
        IF resp.events = <<>> THEN resp.latest_id = None
        ELSE /\ resp.latest_id # None
             /\ resp.latest_id.s.k = "oid"
             /\ resp.latest_id.s.t \in RespIds
             /\ \A i \in RespIds : i <= resp.latest_id.s.t
             /\ ValidCursor => resp.latest_id.s.t > ReqOid

\* A poll by timestamp whose newest record is not the one with the largest
\* id.
C9_Witness ==
    /\ PollAnswered /\ Truthy(req.since) /\ ~Truthy(req.after_id)
    /\ Len(resp.events) = 2
    /\ resp.events[1]._id # resp.latest_id

Before(a, b) ==
    \/ a.timestamp.s.t > b.timestamp.s.t
    \/ a.timestamp.s.t = b.timestamp.s.t /\ a._id.s.t > b._id.s.t

\* C16 (display order of a batch): in every query mode the events of an
\* answer are ordered newest first by timestamp, events with the same
\* timestamp by id descending.
C16_DisplayOrder ==
    PollAnswered =>
        \A i \in 1..(Len(resp.events) - 1) :
            Before(resp.events[i], resp.events[i + 1])

\* A batch selected by cursor whose display order is not its id order, and
\* so not the order it was read in.
C16_Witness ==
    /\ PollAnswered /\ Truthy(req.after_id)
    /\ Len(resp.events) = 2
    /\ resp.events[1]._id.s.t < resp.events[2]._id.s.t

-----------------------------------------------------------------------------
(* SpecNormalize: the normalizers applied to upstream values.              *)

StampTimes == 0..MaxStamp
Offsets == (0 - MaxOffset)..MaxOffset

\* Upstream timestamp fields: ISO-8601 with Z, with a numeric offset or
\* with none, the canonical form itself, other text, the empty string, null
\* and a number.
TimestampInputs ==
    {JStr(Stamp(k, t, 0)) : k \in {"isoZ", "isoNaive", "canon"}, t \in StampTimes}
    \cup {JStr(Stamp("isoOff", t, o)) : t \in StampTimes, o \in Offsets}
    \cup {Lit("yesterday"), EmptyStr, None, JNum(1706522400)}

\* _timestamp_to_utc_str is a function of its argument and the clock: one
\* application to each input shows all it does.
NormalizeTimestamp ==
    /\ req.kind = "none"
    /\ \E v \in TimestampInputs, now \in StampTimes :
        /\ req' = [kind |-> "timestamp", value |-> v, now |-> now]
        /\ resp' = [kind |-> "timestamp", value |-> _timestamp_to_utc_str(v, now)]
        /\ UNCHANGED <<store, poller>>

\* Payload trees.  A field of a tree is missing (Absent), null, or a value;
\* Tree keeps the fields that are there.
Absent == [t |-> "absent"]
Tree(f) == JObj([k \in {x \in DOMAIN f : f[x] # Absent} |-> f[k]])

Names(w) == {Absent, None, Lit(w)}
Named(key, w) ==
    {Absent, None} \cup {Tree([x \in {key} |-> n]) : n \in Names(w)}

\* ref: missing, null, a branch ref, a ref without the prefix, a ref whose
\* branch name holds the prefix again, one that holds it only inside, and
\* a number.
Refs ==
    {Absent, None, Lit("main"), JNum(7),
     JStr(Text(<<"refs/heads/", "main">>)),
     JStr(Text(<<"refs/heads/", "feature/", "refs/heads/", "x">>)),
     JStr(Text(<<"tags/", "refs/heads/", "x">>))}

HeadCommits ==
    {Absent, None}
    \cup {Tree([id |-> Lit("abc123"), timestamp |-> ts, author |-> a]) :
            ts \in {Absent, None, JStr(Stamp("isoZ", 1, 0)), JNum(5)},
            a \in Named("name", "carol")}

PushTrees ==
    {Tree([ref |-> r, pusher |-> p, head_commit |-> h, after |-> Lit("abc123")]) :
        r \in Refs, p \in Named("name", "alice"), h \in HeadCommits}

UpstreamActions ==
    {Absent, None} \cup
    {Lit(w) : w \in {"opened", "closed", "synchronize", "reopened", "labeled"}}

PullRequests ==
    {Absent, None, Lit("42")}
    \cup {Tree([merged |-> m, number |-> JNum(42), user |-> u, head |-> h,
                 base |-> b, updated_at |-> ts]) :
            m \in {Absent, None, JBool(TRUE), JBool(FALSE), JNum(1)},
            u \in Named("login", "bob"),
            h \in Named("ref", "feature-x"),
            b \in {JObj([ref |-> Lit("main")]), JObj([ref |-> None])},
            ts \in {Absent, JStr(Stamp("isoZ", 1, 0)), JNum(5)}}

PullRequestTrees ==
    {Tree([action |-> a, pull_request |-> pr]) :
        a \in UpstreamActions, pr \in PullRequests}

\* Event-kind labels with the payloads sent under them: the trees of each
\* kind, a tree under another label, and payloads that are no object.
ParseInputs ==
    {<<GITHUB_EVENT_PUSH, t>> : t \in PushTrees}
    \cup {<<GITHUB_EVENT_PULL_REQUEST, t>> : t \in PullRequestTrees}
    \cup {<<k, t>> : k \in {"ping", "issues", "star", ""},
                     t \in {PushPayload(EmptyStr), EmptyDict}}
    \cup {<<k, t>> : k \in {GITHUB_EVENT_PUSH, GITHUB_EVENT_PULL_REQUEST},
                     t \in {None, Lit("payload"), JNum(1), JBool(TRUE), EmptyDict}}

\* parse_github_webhook is a function of its arguments and the clock: one
\* application to each input shows all it does.
NormalizePayload ==
    /\ req.kind = "none"
    /\ \E q \in ParseInputs, now \in Instants :
        /\ req' = [kind |-> "parse", event_type |-> q[1], payload |-> q[2],
                   now |-> now]
        /\ resp' = [kind |-> "parse",
                    value |-> parse_github_webhook(q[2], q[1], now)]
        /\ UNCHANGED <<store, poller>>

NextNormalize == NormalizeTimestamp \/ NormalizePayload

SpecNormalize == InitApi /\ [][NextNormalize]_vars

\* C10 (idempotence): the normalizer applied to a string already in the
\* canonical form returns that string.
C10_Idempotent ==
    (req.kind = "timestamp" /\ IsStr(req.value) /\ req.value.s.k = "canon") =>
        resp.value = Ok(req.value)

-----------------------------------------------------------------------------
(* Claims about the payload normalizer, under SpecNormalize.               *)

Parsed == req.kind = "parse"
Produced == Parsed /\ resp.value # None

\* C11 (string fields are never null): whenever the normalizer produces a
\* record from a push or pull-request payload, the record's author,
\* from_branch and to_branch are strings, also when the source field is
\* missing or null.
C11_StringsNeverNull ==
    Produced => /\ IsStr(resp.value.author)
                /\ IsStr(resp.value.from_branch)
                /\ IsStr(resp.value.to_branch)

\* What a pull-request payload says: its action verb, its pull-request
\* object, and whether the merged flag is set.
UpstreamAction == Get(req.payload, "action", EmptyStr)
PullRequestOf == Get(req.payload, "pull_request", EmptyDict)
Merged == IsObj(PullRequestOf) /\ Truthy(Get(PullRequestOf, "merged", JBool(FALSE)))
ParsedPullRequest ==
    Parsed /\ req.event_type = GITHUB_EVENT_PULL_REQUEST /\ IsObj(req.payload)

\* The decision table on (upstream action, merged flag).
DecisionTable ==
    CASE UpstreamAction = Lit("closed") /\ Merged ->
            resp.value # None /\ resp.value.action = ACTION_MERGE
      [] UpstreamAction = Lit("opened") ->
            resp.value # None /\ resp.value.action = ACTION_PULL_REQUEST
      [] UpstreamAction = Lit("closed") /\ ~Merged ->
            resp.value # None /\ resp.value.action = ACTION_PULL_REQUEST
      [] OTHER -> resp.value = None

\* The payload has the structure the normalizer reads: the pull-request
\* object is an object, user, head and base are objects where present,
\* and the timestamp is a string where present.
MissingOrObj(d, key) == key \notin DOMAIN d.o \/ IsObj(d.o[key])
WellFormedPullRequest ==
    /\ IsObj(PullRequestOf)
    /\ \A key \in {"user", "head", "base"} : MissingOrObj(PullRequestOf, key)
    /\ LET ts == Or(Get(PullRequestOf, "updated_at", EmptyStr),
                    Get(PullRequestOf, "created_at", EmptyStr))
       IN  ~Truthy(ts) \/ IsStr(ts)

RecordFields ==
    {"request_id", "author", "action", "from_branch", "to_branch", "timestamp"}

\* C17 (normalizers never raise): for every event-kind label and every
\* payload, parse_github_webhook returns the "no record" value or a record
\* with all six fields; nothing raised inside reaches the caller.
C17_NeverRaises ==
    Parsed => \/ resp.value = None
              \/ DOMAIN resp.value = RecordFields

\* A push whose head_commit is null: the field read raises inside the
\* parser, and the result is "no record".
C17_Witness ==
    /\ Parsed /\ req.event_type = GITHUB_EVENT_PUSH /\ IsObj(req.payload)
    /\ "head_commit" \in DOMAIN req.payload.o
    /\ req.payload.o.head_commit = None
    /\ resp.value = None

\* The ref of a push payload, and the ref with one leading "refs/heads/"
\* taken off.
RefOf == req.payload.o.ref
WithoutPrefix(ref) ==
    IF ref.s.k = "text" /\ ref.s.seg # <<>> /\ ref.s.seg[1] = "refs/heads/"
    THEN JStr(Text(Tail(ref.s.seg)))
    ELSE ref

\* C19 (push branch derivation): a record made from a push payload with a
\* ref has action PUSH, and its from_branch and to_branch are both the ref
\* with exactly one leading "refs/heads/" removed when it starts with it
\* (the rest unchanged), the raw ref otherwise.
C19_BranchDerivation ==
    (/\ Produced /\ req.event_type = GITHUB_EVENT_PUSH
     /\ "ref" \in DOMAIN req.payload.o /\ IsStr(RefOf))
    => /\ resp.value.action = ACTION_PUSH
       /\ resp.value.from_branch = WithoutPrefix(RefOf)
       /\ resp.value.to_branch = WithoutPrefix(RefOf)

-----------------------------------------------------------------------------
(* SpecIngest: the handlers, one request at a time, with webhooks of every *)
(* kind and shape.                                                         *)

MaxIngest == 2   \* webhooks that reach insert_one in one run

\* Deliveries that store a record, deliveries of an unknown kind, and
\* payloads that lack what a record is made from.
IngestDeliveries ==
    {<<GITHUB_EVENT_PUSH, PushPayload(JStr(Stamp("isoZ", 1, 0)))>>,
     <<GITHUB_EVENT_PUSH, JObj([zen |-> Lit("hi")])>>,
     <<GITHUB_EVENT_PUSH, JObj([ref |-> Lit("main"), pusher |-> JObj([name |-> None])])>>,
     <<GITHUB_EVENT_PUSH, JObj([head_commit |-> None])>>,
     <<GITHUB_EVENT_PUSH, EmptyDict>>,
     <<GITHUB_EVENT_PUSH, None>>,
     <<GITHUB_EVENT_PULL_REQUEST, PullRequestPayload("opened", FALSE, EmptyStr)>>,
     <<GITHUB_EVENT_PULL_REQUEST, PullRequestPayload("closed", TRUE, EmptyStr)>>,
     <<GITHUB_EVENT_PULL_REQUEST, PullRequestPayload("synchronize", FALSE, EmptyStr)>>,
     <<GITHUB_EVENT_PULL_REQUEST, JObj([action |-> Lit("opened")])>>,
     <<GITHUB_EVENT_PULL_REQUEST, JObj([action |-> Lit("opened"), pull_request |-> None])>>,
     <<"ping", JObj([zen |-> Lit("hi")])>>,
     <<"ping", EmptyDict>>,
     <<"issues", JObj([action |-> Lit("opened")])>>,
     <<"issues", EmptyDict>>,
     <<"", JObj([zen |-> Lit("hi")])>>}

IngestRequests == {<<d[1], d[2], 1, up>> : d \in IngestDeliveries, up \in BOOLEAN}

\* Polls of a client between the webhooks, with the database up or down.
IngestPolls ==
    {<<Args(a, None, None), up>> : a \in {None, StrOfOid(1)}, up \in BOOLEAN}

IngestDeliver ==
    \E q \in IngestRequests :
        /\ Inserts(webhook_event(q[1], q[2], q[3]), q[4]) => oidCount < MaxIngest
        /\ handle_webhook(q[1], q[2], q[3], q[4])
        /\ handle_webhook_answer(q[1], q[2], q[3], q[4])
        /\ UNCHANGED poller

IngestPoll ==
    \E q \in IngestPolls :
        /\ ApiEvents(q[1], q[2])
        /\ ApiEventsAnswer(q[1], q[2])
        /\ UNCHANGED poller

NextIngest == IngestDeliver \/ ApiClear \/ IngestPoll

SpecIngest == InitApi /\ [][NextIngest]_vars

Webhook == req.kind = "webhook"

\* The event kind is none the normalizer knows.
Unsupported(q) ==
    q.event_type \notin {"", GITHUB_EVENT_PUSH, GITHUB_EVENT_PULL_REQUEST}

\* The payload lacks what the normalizer of its kind must be given: commit
\* and ref information for a push, the action verb and the pull-request
\* object for a pull request.
MissingRequired(q) ==
    \/ ~IsObj(q.payload)
    \/ /\ q.event_type = GITHUB_EVENT_PUSH
       /\ ~({"ref", "head_commit"} \subseteq DOMAIN q.payload.o)
    \/ /\ q.event_type = GITHUB_EVENT_PULL_REQUEST
       /\ ~({"action", "pull_request"} \subseteq DOMAIN q.payload.o)

\* C12 (malformed or unsupported input is dropped and acknowledged): a
\* webhook of an unknown kind, or one whose payload lacks required fields,
\* leaves the store as it was and is answered with success.
C12_DroppedAndAcked ==
    [][(req'.kind = "webhook" /\ (Unsupported(req') \/ MissingRequired(req')))
        => (docs' = docs /\ resp'.status = 200)]_vars

\* The fields of a stored document.
DocumentFields ==
    {"_id", "request_id", "author", "action", "from_branch", "to_branch",
     "timestamp"}

\* The ids the store holds above the cursor of the request (all of them
\* when the request has none).
IdsAfterCursor ==
    {i \in Ids(docs) : ValidCursor => i > ReqOid}

C18_StoredRecord ==
    \A d \in docs : /\ DOMAIN d = DocumentFields
                     /\ d.action \in ACTION_TYPES

\* Two records are stored, a merge among them, and a poll has read them.
C18_Witness ==
    /\ Cardinality(docs) = 2
    /\ \E d \in docs : d.action = ACTION_MERGE
    /\ req.kind = "events" /\ resp.status = 200 /\ Len(resp.events) = 2

-----------------------------------------------------------------------------
(* SpecLegacy: one sequence of inserts read by two consumers.  The poller  *)
(* follows the cursor.  The timestamp consumer sends the largest timestamp *)
(* it has seen as since (nothing on its first poll) and no limit.          *)

LegacyArgs == [after_id |-> None, since |-> legacy.since, limit |-> None]

\* The largest timestamp of an answer is that of its first event.
LegacyTakes(r) ==
    IF r.status # 200 THEN UNCHANGED legacy
    ELSE legacy' =
            [since |-> IF r.count = 0 THEN legacy.since ELSE r.events[1].timestamp,
             seen |-> legacy.seen \cup BatchIds(r),
             polled |-> oidCount,
             lastEmpty |-> (r.count = 0)]

InitLegacy == InitStore /\ limit = MaxOid

LegacyDeliver ==
    \E q \in WebhookRequests :
        /\ handle_webhook(q[1], q[2], q[3], q[4])
        /\ UNCHANGED <<poller, client>>

LegacyPoll ==
    \E up \in BOOLEAN :
        \E r \in {api_events(docs, LegacyArgs, up)} :
            /\ ApiEvents(LegacyArgs, up)
            /\ LegacyTakes(r)
            /\ UNCHANGED <<cursor, delivered, lastEmpty, disturbed, limit, held, client>>

NextLegacy == LegacyDeliver \/ Poll \/ LegacyPoll

SpecLegacy == InitLegacy /\ [][NextLegacy]_vars

\* The stored records the timestamp consumer has not received although
\* their timestamp is no larger than its since value.
Behind == {d \in docs : /\ d._id \notin legacy.seen
                        /\ legacy.since # None
                        /\ Ts(d) <= legacy.since.s.t}

\* C20 (legacy polling is not gap-free): a stored record whose timestamp is
\* equal to or smaller than the since value of the timestamp consumer, and
\* which that consumer has not received, is not received in any poll it makes
\* from then on, as its since value never decreases; while the poller, over
\* the same inserts, has received every stored record up to its cursor.
C20_LegacyGap ==
    [][/\ \A d \in Behind : d \in docs' => d \in Behind'
       /\ legacy.since # None =>
            legacy'.since # None /\ legacy'.since.s.t >= legacy.since.s.t
       /\ \A d \in docs' : d._id <= CursorOid' => delivered'[d._id] >= 1]_vars

\* The timestamp consumer has polled after a record was stored and has not
\* received it, its timestamp being no larger than the since value, while
\* the poller has received that record and every other.
C20_Witness ==
    \E d \in Behind :
        /\ d._id <= legacy.polled
        /\ legacy.lastEmpty
        /\ \A i \in legacy.seen : i < d._id
        /\ legacy.seen # {}
        /\ \A e \in docs : delivered[e._id] = 1

-----------------------------------------------------------------------------
(* SpecClear: webhooks, the poller, and clears with their answers.         *)

ClearAnswered ==
    \E up \in BOOLEAN :
        /\ delete_all_events(up)
        /\ ClearEventsAnswer(up)
        /\ disturbed' = (disturbed \/ (Started /\ up))
        /\ held' = IF up THEN cursor ELSE held
        /\ UNCHANGED <<cursor, delivered, lastEmpty, limit, legacy>>

NextClear == Deliver \/ Write \/ ClearAnswered \/ Poll

SpecClear == Init /\ [][NextClear]_vars

\* C21 (clear and the cursor): a clear that succeeds leaves the collection
\* empty and answers the number of records stored just before it, and only
\* a clear removes records (no poll does); and once the poller has held a
\* cursor over a clear, every stored record at or below its cursor has come
\* to it in exactly one batch, and no stored record in more than one.
C21_ClearAndCursor ==
    [][/\ (resp'.status = 200 /\ client' # client) =>
            docs' = {} /\ resp'.count = Cardinality(docs)
       /\ ~(docs \subseteq docs') =>
            /\ docs' = {}
            /\ resp'.kind = "clear" /\ resp'.status = 200
            /\ resp'.count = Cardinality(docs)
            /\ <<cursor', delivered', lastEmpty'>> = <<cursor, delivered, lastEmpty>>
       /\ held' # None =>
            \A d \in docs' : /\ delivered'[d._id] <= 1
                             /\ d._id <= CursorOid' => delivered'[d._id] = 1]_vars

====
